---- MODULE Spec2Model ----
(***************************************************************************)
(* Runoff accumulation over a drainage network (functionality.py).         *)
(*                                                                         *)
(* The model covers calc_flow_dfs, calc_VQR and set_retention.  Volumes    *)
(* are integers (the code uses floats; rounding is not modelled).  The     *)
(* library calls are modelled by what they compute:                        *)
(*   g.reverse()          every edge turned round, node order kept, each   *)
(*                        adjacency list in the node order of g            *)
(*   nx.dfs_successors    depth-first search from the source; a dict that  *)
(*                        maps each node with tree children to the list of *)
(*                        them, keys in order of first insertion           *)
(*   np.where / np.isin   the positions of the node enumeration that match *)
(***************************************************************************)
EXTENDS Integers, Sequences, FiniteSets, TLC

(* ---------------------------- bounds ----------------------------------- *)
MaxUpstream == 2
MaxArea == 1
MaxPrecip == 1
MaxRetention == 2
RetentionStep == 8

(* ---------------------------- inputs ----------------------------------- *)
Outlet == "alois-hamtod-weg"
NodeNames == <<"a", "b", "c", "d", "e">>
UpstreamKeys == {NodeNames[i] : i \in 1..MaxUpstream}
Keys == {Outlet} \cup UpstreamKeys
Areas == 0..MaxArea
Depths == 0..MaxPrecip
Volumes == {RetentionStep * k : k \in 0..MaxRetention}

(* ---------------------------- helpers ---------------------------------- *)
Max(a, b) == IF a >= b THEN a ELSE b

Range(s) == {s[i] : i \in DOMAIN s}

RECURSIVE SumOver(_, _)
SumOver(f, S) ==
  IF S = {} THEN 0
  ELSE LET x == CHOOSE y \in S : TRUE IN f[x] + SumOver(f, S \ {x})

zeros(n) == [i \in 1..n |-> 0]

\* np.where(nodes == key)[0]: the positions holding key
where(nodes, key) == {i \in DOMAIN nodes : nodes[i] = key}

\* np.isin(nodes, list): the positions whose key is in the list
isin(nodes, list) == {i \in DOMAIN nodes : nodes[i] \in Range(list)}

\* reversed that keeps the insertion order
reversed_not(keys) == keys

\* reversed(d) of a dict: its keys, last inserted first
reversed(keys) == [i \in DOMAIN keys |-> keys[Len(keys) + 1 - i]]

(* ---------------------------- graph ------------------------------------ *)
\* nodes that have a path to a node of S (S included)
RECURSIVE UpstreamClosure(_, _)
UpstreamClosure(E, S) ==
  LET T == S \cup {e[1] : e \in {d \in E : d[2] \in S}}
  IN IF T = S THEN S ELSE UpstreamClosure(E, T)

Acyclic(E) == \A e \in E : e[2] \notin UpstreamClosure(E, {e[1]})

\* node enumerations: the outlet at any position among the other keys
Enumerations ==
  {[i \in 1..(n + 1) |->
      IF i = pos THEN Outlet
      ELSE NodeNames[IF i < pos THEN i ELSE i - 1]] :
    <<n, pos>> \in {np \in (0..MaxUpstream) \X (1..(MaxUpstream + 1)) :
                     np[2] <= np[1] + 1}}

Graphs ==
  UNION {
    UNION {
      {[nodes |-> ns, edges |-> E, area_ha |-> a] :
         a \in [Range(ns) -> Areas]} :
      E \in {F \in SUBSET {e \in Range(ns) \X Range(ns) : e[1] # e[2]} :
               Acyclic(F)}} :
    ns \in Enumerations}

\* reverse that returns the graph as it is
reverse_not(G) == G

\* DiGraph.reverse
reverse(G) ==
  [nodes |-> G.nodes,
   edges |-> {<<e[2], e[1]>> : e \in G.edges},
   area_ha |-> G.area_ha]

\* adjacency list G[u]
Adj(G, u) ==
  LET isSucc(v) == <<u, v>> \in G.edges IN SelectSeq(G.nodes, isSucc)

\* nx.dfs_edges: st = [visited, edges], scanning child i of parent
RECURSIVE dfs_edges(_, _, _, _)
dfs_edges(G, parent, i, st) ==
  IF i > Len(Adj(G, parent)) THEN st
  ELSE LET child == Adj(G, parent)[i] IN
    IF child \in st.visited THEN dfs_edges(G, parent, i + 1, st)
    ELSE dfs_edges(G, parent, i + 1,
           dfs_edges(G, child, 1,
             [visited |-> st.visited \cup {child},
              edges |-> Append(st.edges, <<parent, child>>)]))

\* insertion order of the dict keys
RECURSIVE DictKeys(_, _)
DictKeys(es, i) ==
  IF i = 0 THEN <<>>
  ELSE LET ks == DictKeys(es, i - 1) IN
    IF es[i][1] \in Range(ks) THEN ks ELSE Append(ks, es[i][1])

\* nx.dfs_successors
dfs_successors(G, source) ==
  LET es == dfs_edges(G, source, 1, [visited |-> {source}, edges |-> <<>>]).edges
      ks == DictKeys(es, Len(es))
  IN [keys |-> ks,
      succ |-> [n \in Range(ks) |->
                  LET from(e) == e[1] = n
                      sel == SelectSeq(es, from)
                  IN [j \in DOMAIN sel |-> sel[j][2]]]]

(* ---------------------------- calc_VQR --------------------------------- *)
\* calc_VQR adding the factor instead of multiplying by it
calc_VQR_plus(G, p) == [n \in Range(G.nodes) |-> G.area_ha[n] * p + 10]

\* VQR in m3 from the area in ha and the precipitation in mm
calc_VQR(G, p) == [n \in Range(G.nodes) |-> G.area_ha[n] * p * 10]

(* ---------------------------- calc_flow_dfs ---------------------------- *)
None == [ref |-> "None", arr |-> <<>>]
array(a) == [ref |-> "array", arr |-> a]

\* init_arrays without the floor at zero of line 29
init_arrays_nofloor(G, p, ret, callers) ==
  LET n == Len(G.nodes)
      r == IF ret.ref = "None" THEN zeros(n) ELSE ret.arr
      vqr == calc_VQR(G, p)
      pv == [i \in 1..n |-> vqr[G.nodes[i]]]
  IN [precip |-> pv,
      vq |-> [i \in 1..n |-> pv[i] - r[i]],
      retention |-> [i \in 1..n |-> Max(r[i] - pv[i], 0)],
      callers |-> callers]

\* init_arrays taking the distance of volume and retention at line 29
init_arrays_abs(G, p, ret, callers) ==
  LET n == Len(G.nodes)
      r == IF ret.ref = "None" THEN zeros(n) ELSE ret.arr
      vqr == calc_VQR(G, p)
      pv == [i \in 1..n |-> vqr[G.nodes[i]]]
  IN [precip |-> pv,
      vq |-> [i \in 1..n |-> Max(pv[i] - r[i], r[i] - pv[i])],
      retention |-> [i \in 1..n |-> Max(r[i] - pv[i], 0)],
      callers |-> callers]

\* init_arrays writing line 30 into the array it was passed
init_arrays_inplace(G, p, ret, callers) ==
  LET n == Len(G.nodes)
      r == IF ret.ref = "None" THEN zeros(n) ELSE ret.arr
      vqr == calc_VQR(G, p)
      pv == [i \in 1..n |-> vqr[G.nodes[i]]]
      left == [i \in 1..n |-> Max(r[i] - pv[i], 0)]
  IN [precip |-> pv,
      vq |-> [i \in 1..n |-> Max(pv[i] - r[i], 0)],
      retention |-> left,
      callers |-> IF ret.ref = "None" THEN callers ELSE array(left)]

\* lines 23-30: the arrays before the loop.  ret is the argument as passed
\* (None or the caller's array), callers is the caller's array object.
\* The result names new arrays; the caller's object is left as it is.
init_arrays(G, p, ret, callers) ==
  LET n == Len(G.nodes)
      r == IF ret.ref = "None" THEN zeros(n) ELSE ret.arr
      vqr == calc_VQR(G, p)
      pv == [i \in 1..n |-> vqr[G.nodes[i]]]
  IN [precip |-> pv,
      vq |-> [i \in 1..n |-> Max(pv[i] - r[i], 0)],
      retention |-> [i \in 1..n |-> Max(r[i] - pv[i], 0)],
      callers |-> callers]

\* loop_body with = in place of += at line 34
loop_body_assign(nodes, ord, element, v, ret) ==
  LET i == where(nodes, element)
      mask == isin(nodes, ord.succ[element])
      runon == SumOver(v, mask)
  IN [j \in DOMAIN v |->
        IF j \in i THEN Max(runon - ret[j], 0) ELSE v[j]]

\* lines 32-34: one pass of the loop body
loop_body(nodes, ord, element, v, ret) ==
  LET i == where(nodes, element)
      mask == isin(nodes, ord.succ[element])
      runon == SumOver(v, mask)
  IN [j \in DOMAIN v |->
        IF j \in i THEN v[j] + Max(runon - ret[j], 0) ELSE v[j]]

RECURSIVE accumulate(_, _, _, _, _)
accumulate(nodes, ord, it, v, ret) ==
  IF it = <<>> THEN v
  ELSE accumulate(nodes, ord, Tail(it),
                  loop_body(nodes, ord, Head(it), v, ret), ret)

\* the whole function, as one value
calc_flow_dfs(G, p, ret) ==
  LET ord == dfs_successors(reverse(G), Outlet)
      a == init_arrays(G, p, ret, ret)
  IN accumulate(G.nodes, ord, reversed(ord.keys), a.vq, a.retention)

(* ---------------------------- set_retention ---------------------------- *)
\* set_retention writing from the matched position to the end
set_retention_slice(node, volume, graph, ret) ==
  LET r == IF ret.ref = "None" THEN zeros(Len(graph.nodes)) ELSE ret.arr
      hit == where(graph.nodes, node)
  IN array([j \in DOMAIN r |->
              IF \E k \in hit : j >= k THEN volume ELSE r[j]])

\* set_retention writing the last entry when nothing matches
set_retention_last(node, volume, graph, ret) ==
  LET r == IF ret.ref = "None" THEN zeros(Len(graph.nodes)) ELSE ret.arr
      hit == where(graph.nodes, node)
  IN array([j \in DOMAIN r |->
              IF j \in hit \/ (hit = {} /\ j = Len(r)) THEN volume ELSE r[j]])

\* lines 65-68: the array after the call (written in place when one is
\* passed, a new one otherwise)
set_retention(node, volume, graph, ret) ==
  LET r == IF ret.ref = "None" THEN zeros(Len(graph.nodes)) ELSE ret.arr
      hit == where(graph.nodes, node)
  IN array([j \in DOMAIN r |-> IF j \in hit THEN volume ELSE r[j]])

(* ---------------------------- state ------------------------------------ *)
VARIABLES
  g,          \* the drainage graph: nodes (enumeration), edges, area_ha
  store,      \* the caller's retention array, or None
  lastCall,   \* the call the caller made last
  pc,         \* position inside calc_flow_dfs, "idle" outside
  order,      \* local: result of dfs_successors
  precip,     \* local: the precip argument (mm)
  vqr,        \* local: precip after line 28 (per-node volume)
  retention,  \* local: the name retention
  vq,         \* local: outflow
  it          \* local: what the for loop has still to visit

vars == <<g, store, lastCall, pc, order, precip, vqr, retention, vq, it>>

NoOrder == [keys |-> <<>>, succ |-> <<>>]

Init ==
  /\ g \in Graphs
  /\ store \in {None} \cup {array([i \in DOMAIN g.nodes |-> v]) : v \in Volumes}
  /\ lastCall = "none"
  /\ pc = "idle"
  /\ order = NoOrder
  /\ precip = 0
  /\ vqr = <<>>
  /\ retention = None
  /\ vq = <<>>
  /\ it = <<>>

locals == <<order, precip, vqr, retention, vq, it>>

\* the caller sets a retention volume: threading its array, or with the
\* retention argument omitted; it keeps the array that is returned
SetRetention(node, volume, omit) ==
  /\ pc = "idle"
  /\ store' = set_retention(node, volume, g, IF omit THEN None ELSE store)
  /\ lastCall' = IF where(g.nodes, node) = {} THEN "set_retention_miss"
                 ELSE "set_retention"
  /\ UNCHANGED <<g, pc, locals>>

\* line 21: entry and traversal
Call(p) ==
  /\ pc = "idle"
  /\ precip' = p
  /\ retention' = store
  /\ order' = dfs_successors(reverse(g), Outlet)
  /\ pc' = "line23"
  /\ lastCall' = "calc_flow_dfs"
  /\ UNCHANGED <<g, store, vqr, vq, it>>

\* lines 23-30, and the iterator of line 31
Initialise ==
  /\ pc = "line23"
  /\ LET a == init_arrays(g, precip, retention, store) IN
       /\ vqr' = a.precip
       /\ vq' = a.vq
       /\ retention' = array(a.retention)
       /\ store' = a.callers
  /\ it' = reversed(order.keys)
  /\ pc' = "line31"
  /\ UNCHANGED <<g, lastCall, order, precip>>

\* lines 32-34
LoopStep ==
  /\ pc = "line31"
  /\ it # <<>>
  /\ vq' = loop_body(g.nodes, order, Head(it), vq, retention.arr)
  /\ it' = Tail(it)
  /\ UNCHANGED <<g, store, lastCall, pc, order, precip, vqr, retention>>

\* line 35
Return ==
  /\ pc = "line31"
  /\ it = <<>>
  /\ pc' = "done"
  /\ UNCHANGED <<g, store, lastCall, order, precip, vqr, retention, vq, it>>

\* the caller has read the result; the frame is gone
Resume ==
  /\ pc = "done"
  /\ pc' = "idle"
  /\ order' = NoOrder
  /\ precip' = 0
  /\ vqr' = <<>>
  /\ retention' = None
  /\ vq' = <<>>
  /\ it' = <<>>
  /\ UNCHANGED <<g, store, lastCall>>

Next ==
  \/ \E node \in Keys, volume \in Volumes, omit \in BOOLEAN :
       SetRetention(node, volume, omit)
  \/ \E p \in Depths : Call(p)
  \/ Initialise
  \/ LoopStep
  \/ Return
  \/ Resume

Spec == Init /\ [][Next]_vars

(* ---------------------------- vocabulary of the properties ------------- *)
Nodes == Range(g.nodes)

\* position of a node key in the enumeration
idx(n) == CHOOSE i \in DOMAIN g.nodes : g.nodes[i] = n

idxs(S) == {idx(n) : n \in S}

\* nodes from which a path of edges leads to the outlet, the outlet included
Reachable == UpstreamClosure(g.edges, {Outlet})

\* nodes with an edge pointing to n
Preds(n) == {e[1] : e \in {d \in g.edges : d[2] = n}}

\* the contributors recorded for n by the traversal
Contributors(n) ==
  IF n \in DOMAIN order.succ THEN Range(order.succ[n]) ELSE {}

\* the retention the call was given, per position
r0 == IF store.ref = "None" THEN zeros(Len(g.nodes)) ELSE store.arr

\* precipitation volume of a node for the depth of the call
Volume(n) == g.area_ha[n] * precip * 10

VolumeOf == [n \in Nodes |-> Volume(n)]

InLoop == pc \in {"line31", "done"}

(* ---------------------------- C1 --------------------------------------- *)
\* C1: with zero retention at every node (or none passed), the returned
\* outflow at the outlet's index is the sum of area * depth * 10 over the
\* nodes that reach the outlet, each counted once.
C1_Conservation ==
  (pc = "done" /\ \A i \in DOMAIN r0 : r0[i] = 0)
    => vq[idx(Outlet)] = SumOver(VolumeOf, Reachable)

\* a graph that is no tree: a drains to b and to the outlet, b to the outlet
C1_Witness ==
  /\ pc = "done"
  /\ \A i \in DOMAIN r0 : r0[i] = 0
  /\ \E a \in Nodes, b \in Nodes :
       /\ {<<a, b>>, <<a, Outlet>>, <<b, Outlet>>} \subseteq g.edges
       /\ Volume(a) > 0 /\ Volume(b) > 0
  /\ vq[idx(Outlet)] = SumOver(VolumeOf, Reachable)

(* ---------------------------- C2 --------------------------------------- *)
\* C2: after the initialisation and after every pass of the loop, every
\* entry of the outflow vector is >= 0.
C2_NonNegative == InLoop => \A i \in DOMAIN vq : vq[i] >= 0

\* a pass of the loop made, with a retention above a positive volume
C2_Witness ==
  /\ pc = "line31"
  /\ it # reversed(order.keys)
  /\ \E i \in DOMAIN vq : vqr[i] > 0 /\ r0[i] > vqr[i]

(* ---------------------------- C3 --------------------------------------- *)
OutletFlowWith(ret) == calc_flow_dfs(g, precip, array(ret))[idx(Outlet)]

\* C3: raising the retention of any one node, the rest held fixed, never
\* raises the outflow returned at the outlet.
C3_Monotone ==
  pc = "done" =>
    \A i \in DOMAIN r0 : \A v \in Volumes :
      v > r0[i] => OutletFlowWith([r0 EXCEPT ![i] = v]) <= vq[idx(Outlet)]

\* raising the retention of an upstream node lowers the outlet's outflow
C3_Witness ==
  /\ pc = "done"
  /\ \E i \in DOMAIN r0 : \E v \in Volumes :
       /\ g.nodes[i] # Outlet
       /\ v > r0[i]
       /\ r0[i] > 0
       /\ OutletFlowWith([r0 EXCEPT ![i] = v]) < vq[idx(Outlet)]

(* ---------------------------- C4 --------------------------------------- *)
\* C4 as stated: a node of area 0 has volume 0 and its final outflow is the
\* sum of the final outflows of its direct upstream contributors, whatever
\* its retention.  Stated here for the nodes that reach the outlet and
\* whose direct upstream contributors are all recorded.
C4_RelaysUnchanged ==
  pc = "done" =>
    \A n \in Reachable :
      (g.area_ha[n] = 0 /\ Contributors(n) = Preds(n)) =>
        /\ vqr[idx(n)] = 0
        /\ vq[idx(n)] = SumOver(vq, idxs(Preds(n)))

\* C4 amended: a node of area 0 has volume 0 for every depth, and its final
\* outflow is the sum of the final outflows of its recorded contributors
\* less its own retention, floored at 0; with retention 0 it is that sum,
\* and the recorded contributors of a node that reaches the outlet are all
\* its direct upstream contributors when no node has two outgoing edges.
C4_RelaysLessRetention ==
  pc = "done" =>
    \A n \in Nodes :
      g.area_ha[n] = 0 =>
        LET S == SumOver(vq, idxs(Contributors(n))) IN
          /\ vqr[idx(n)] = 0
          /\ vq[idx(n)] = Max(S - r0[idx(n)], 0)
          /\ r0[idx(n)] = 0 => vq[idx(n)] = S
          /\ ( /\ r0[idx(n)] = 0
               /\ n \in Reachable
               /\ \A e \in g.edges : \A d \in g.edges : e[1] = d[1] => e = d )
             => vq[idx(n)] = SumOver(vq, idxs(Preds(n)))

\* a node of area 0 and retention 0 that reaches the outlet and passes on
\* a positive inflow, under positive depth
C4_Witness ==
  /\ pc = "done"
  /\ precip > 0
  /\ \E n \in Reachable \ {Outlet} :
       /\ g.area_ha[n] = 0
       /\ r0[idx(n)] = 0
       /\ Preds(n) # {}
       /\ vq[idx(n)] > 0
       /\ vq[idx(n)] = SumOver(vq, idxs(Preds(n)))

(* ---------------------------- C5 --------------------------------------- *)
\* C5: set_retention for a node at position k of the enumeration sets entry
\* k to the volume and leaves every other entry as it was; with the
\* retention omitted the other entries are 0.  (Every call being of this
\* form, an entry holds the volume of the last call made for its node.)
C5_SetterFrame ==
  [][\A node \in Keys : \A volume \in Volumes : \A omit \in BOOLEAN :
       (SetRetention(node, volume, omit) /\ node \in Nodes) =>
         LET k == idx(node)
             old == IF omit THEN zeros(Len(g.nodes)) ELSE r0
         IN /\ store'.ref = "array"
            /\ DOMAIN store'.arr = DOMAIN g.nodes
            /\ \A j \in DOMAIN g.nodes :
                 store'.arr[j] = IF j = k THEN volume ELSE old[j]]_vars

\* after calls for two nodes, three entries with three different values
C5_Witness ==
  /\ lastCall = "set_retention"
  /\ store.ref = "array"
  /\ Cardinality(Range(store.arr)) = 3

(* ---------------------------- C6 --------------------------------------- *)
\* C6: set_retention for a key that is not in the enumeration changes no
\* entry: it returns the vector as passed, or all zeros when none was.
C6_AbsentKeyNoOp ==
  [][\A node \in Keys : \A volume \in Volumes : \A omit \in BOOLEAN :
       (SetRetention(node, volume, omit) /\ node \notin Nodes) =>
         /\ store'.ref = "array"
         /\ store'.arr = IF omit THEN zeros(Len(g.nodes)) ELSE r0]_vars

\* a call for an absent key made on a vector with a non-zero entry
C6_Witness ==
  /\ lastCall = "set_retention_miss"
  /\ store.ref = "array"
  /\ \E j \in DOMAIN store.arr : store.arr[j] > 0

(* ---------------------------- C7 --------------------------------------- *)
\* C7: no step of calc_flow_dfs, from entry to return, changes the caller's
\* retention vector.
C7_CallerArrayUntouched ==
  [][(pc # "idle" \/ pc' # "idle") => store' = store]_vars

\* the call has consumed retention in its own copy
C7_Witness ==
  /\ pc = "done"
  /\ store.ref = "array"
  /\ retention.arr # store.arr
  /\ \E i \in DOMAIN vq : vq[i] > 0

(* ---------------------------- C8 --------------------------------------- *)
\* nodes the loop has processed once the step is taken
Processed == Range(order.keys) \ Range(it)

C8_Formula ==
  pc = "done" =>
    \A e \in Range(order.keys) :
      LET i == idx(e)
          p == vqr[i]
          r == r0[i]
          S == SumOver(vq, idxs(Contributors(e)))
      IN vq[i] = Max(p - r, 0) + Max(S - Max(r - p, 0), 0)

C8_Step ==
  pc = "line31" =>
    \A e \in Range(order.keys) \ Range(it') :
      \A c \in Contributors(e) : vq'[idx(c)] = vq[idx(c)]

\* C8: once a node has been processed, the outflow of none of its recorded
\* contributors changes any more; and every node with recorded contributors
\* is returned with max(p - r, 0) + max(S - max(r - p, 0), 0), S the sum of
\* the returned outflows of its recorded contributors.
C8_ContributorsFirst == [][C8_Step]_vars /\ []C8_Formula

\* a chain of three, the middle node absorbing part of its inflow
C8_Witness ==
  /\ pc = "done"
  /\ Len(order.keys) = 2
  /\ \E e \in Range(order.keys) \ {Outlet} :
       /\ r0[idx(e)] > vqr[idx(e)]
       /\ vq[idx(e)] > 0
       /\ vq[idx(Outlet)] > vq[idx(e)]

(* ---------------------------- C9 --------------------------------------- *)
\* C9 as stated: for every node the traversal visits, the recorded
\* contributor list is exactly the set of nodes with an edge pointing to it.
C9_AllDirectContributors ==
  pc # "idle" => \A n \in Reachable : Contributors(n) = Preds(n)

\* C9 amended: the recorded list of a visited node holds only nodes with an
\* edge pointing to it, each once; every visited node but the outlet is in
\* exactly one list; a node with an edge pointing to n that is missing from
\* the list of n has a second outgoing edge (it was visited from another
\* node), so the list is exact when no node has two outgoing edges.
C9_TreeContributors ==
  pc # "idle" =>
    /\ \A n \in Reachable :
         /\ Contributors(n) \subseteq Preds(n)
         /\ n \in DOMAIN order.succ =>
              Len(order.succ[n]) = Cardinality(Contributors(n))
         /\ \A m \in Preds(n) \ Contributors(n) :
              \E d \in g.edges : d[1] = m /\ d[2] # n
    /\ \A m \in Reachable \ {Outlet} :
         Cardinality({n \in Nodes : m \in Contributors(n)}) = 1
    /\ DOMAIN order.succ \subseteq Reachable

\* a node draining to two nodes is recorded for one of them only
C9_Witness ==
  /\ pc # "idle"
  /\ \E n \in Reachable : \E m \in Preds(n) :
       /\ m \notin Contributors(n)
       /\ \E n2 \in Reachable \ {n} : m \in Contributors(n2)

(* ---------------------------- C10 -------------------------------------- *)
FlowWith(G, ret) == calc_flow_dfs(G, precip, array(ret))

\* C10: a node that does not reach the outlet is never processed and never
\* a recorded contributor; it is returned with max(p - r, 0), and the
\* returned outflow of every node that reaches the outlet is the same for
\* every area and retention of that node.
C10_Unreachable ==
  \A u \in Nodes \ Reachable :
    /\ pc # "idle" =>
         /\ u \notin Range(order.keys)
         /\ \A n \in Nodes : u \notin Contributors(n)
    /\ pc = "done" =>
         /\ vq[idx(u)] = Max(Volume(u) - r0[idx(u)], 0)
         /\ \A a \in Areas : \A v \in Volumes :
              LET out == FlowWith([g EXCEPT !.area_ha[u] = a],
                                  [r0 EXCEPT ![idx(u)] = v])
              IN \A n \in Reachable : out[idx(n)] = vq[idx(n)]

\* a node downstream of the outlet, with outflow of its own, next to an
\* outlet that has accumulated inflow
C10_Witness ==
  /\ pc = "done"
  /\ \E u \in Nodes \ Reachable :
       /\ <<Outlet, u>> \in g.edges
       /\ vq[idx(u)] > 0
  /\ vq[idx(Outlet)] > Volume(Outlet)

====
